---- MODULE Spec2Model ----
(***************************************************************************)
(* run-ci: the update-pr action of pkg/cli (Runner.action and its helpers) *)
(* and the configuration-file reader of pkg/config (Reader.find, read,     *)
(* FindAndRead), from src/pkg/cli/runner.go.                               *)
(*                                                                         *)
(* A path is a sequence of atoms: "/" is the separator, every other atom   *)
(* is a piece of a path element.  The two configuration file names are     *)
(* single atoms.                                                           *)
(***************************************************************************)
EXTENDS Integers, Sequences, FiniteSets, TLC

\* Longest starting directory (in atoms) the reader is run on.
MaxLen == 4

\* Most pull requests one listing returns.
MaxPRs == 3

\* Most listing calls of one run (the first one and its retries).
MaxListTries == 2

Alphabet == {"/", ".", "a"}

Strings(n) == UNION {[1..k -> Alphabet] : k \in 0..n}

YML == <<".run-ci.yml">>
YAML == <<".run-ci.yaml">>

\* names := []string{".run-ci.yml", ".run-ci.yaml"}
names == <<YML, YAML>>

----------------------------------------------------------------------------
(* path/filepath as Reader.find uses it (Unix separators).                 *)

\* The elements of s between separators, empty ones included.
Elements(s) ==
  LET F[i \in 0..Len(s)] ==
        IF i = 0 THEN << <<>> >>
        ELSE LET p == F[i-1]
             IN IF s[i] = "/" THEN Append(p, <<>>)
                ELSE [p EXCEPT ![Len(p)] = Append(@, s[i])]
  IN F[Len(s)]

DotDot == <<".", ".">>

\* filepath.Clean: drop empty and "." elements, resolve "..", "" becomes ".".
Clean(s) ==
  LET rooted == Len(s) > 0 /\ s[1] = "/"
      es == SelectSeq(Elements(s), LAMBDA e : e # <<>> /\ e # <<".">>)
      St[i \in 0..Len(es)] ==
        IF i = 0 THEN <<>>
        ELSE LET p == St[i-1]
             IN IF es[i] = DotDot
                  THEN IF Len(p) > 0 /\ p[Len(p)] # DotDot
                         THEN SubSeq(p, 1, Len(p) - 1)
                       ELSE IF rooted THEN p
                       ELSE Append(p, es[i])
                  ELSE Append(p, es[i])
      kept == St[Len(es)]
      Cat[i \in 0..Len(kept)] ==
        IF i = 0 THEN <<>>
        ELSE IF i = 1 THEN kept[1]
        ELSE Cat[i-1] \o <<"/">> \o kept[i]
      body == Cat[Len(kept)]
  IN IF rooted THEN <<"/">> \o body
     ELSE IF body = <<>> THEN <<".">>
     ELSE body

LastSep(s) ==
  LET idx == {i \in 1..Len(s) : s[i] = "/"}
  IN IF idx = {} THEN 0 ELSE CHOOSE i \in idx : \A j \in idx : j <= i

\* filepath.Dir: all but the last element, cleaned.
Dir(s) == Clean(SubSeq(s, 1, LastSep(s)))

\* filepath.Join(wd, name): name is never empty.
Join(wd, name) ==
  IF wd = <<>> THEN Clean(name) ELSE Clean(wd \o <<"/">> \o name)

----------------------------------------------------------------------------
(* Values.                                                                 *)

\* config.Config{}: the zero value.
EmptyConfig ==
  [Owner |-> "", Repo |-> "", GitHubToken |-> "", Base |-> "", All |-> FALSE,
   LogLevel |-> "", Expr |-> "", EmptyCommitMsg |-> ""]

\* What a configuration file may decode to.
FileConfigs ==
  [Owner : {"", "fo"}, Repo : {"", "fr"}, GitHubToken : {"", "ft"},
   Base : {"", "fb"}, All : BOOLEAN, LogLevel : {"", "bogus"},
   Expr : {"", "ok", "bad"}, EmptyCommitMsg : {""}]

\* The update-pr flags other than --config, as c.String / c.Bool return them.
NoFlags ==
  [owner |-> "", repo |-> "", token |-> "", base |-> "", all |-> FALSE,
   logLevel |-> ""]

FlagSets ==
  [owner : {"", "co"}, repo : {"", "cr"}, token : {"", "ct"},
   base : {"", "cb"}, all : BOOLEAN, logLevel : {"", "debug"}]

\* $GITHUB_TOKEN / $GITHUB_ACCESS_TOKEN.
EnvTokens == {"", "et"}

\* cienv.Get(): nil, or a platform with its RepoOwner() and RepoName().
NoPlatform == [present |-> FALSE, owner |-> "", repo |-> ""]

Platforms ==
  {NoPlatform,
   [present |-> TRUE, owner |-> "", repo |-> ""],
   [present |-> TRUE, owner |-> "po", repo |-> "pr"]}

\* --config: absent, or an explicit path.
ExplicitPath == <<"/", "x.yml">>

CfgPaths == {<<>>, ExplicitPath}

NoSnap ==
  [file |-> EmptyConfig, cli |-> EmptyConfig, pre |-> EmptyConfig,
   valid |-> EmptyConfig]

NoErrs == [read |-> "none", validate |-> "none", compile |-> "none"]

NoClient == [built |-> FALSE, Token |-> ""]

NoController == [built |-> FALSE, Config |-> EmptyConfig, Expr |-> ""]

NoReturn == [cfg |-> EmptyConfig, err |-> "none"]

NoFound == [p |-> <<>>, b |-> FALSE]

VARIABLES
  pc,        \* position in Runner.action
  cfg,       \* the local cfg of Runner.action
  flags,     \* the flags setCLIArg read
  envToken,  \* the token the environment held when SetEnv ran
  platform,  \* what cienv.Get() returned
  result,    \* the error Runner.action returned ("none" while it runs)
  events,    \* the calls Runner.action has made, in order
  snap,      \* cfg as it was after readConfig, setCLIArg, SetDefault, validation
  errs,      \* what readConfig, the validation and expr.New returned
  ghClient,  \* the client github.New built
  ctrl,      \* the controller.Controller value
  logger,    \* logrus's level
  rPc,       \* position in Reader.FindAndRead / Reader.find
  rCfgPath,  \* FindAndRead's cfgPath argument
  rWd0,      \* FindAndRead's wd argument
  rWd,       \* find's wd
  rFiles,    \* the paths for which ExistFile answers true
  rSearched, \* find was called
  rFound,    \* what find returned
  rReadPath, \* the path read was called with
  rRet,      \* what FindAndRead returned
  cPc,       \* the controller's run state
  prs,       \* the candidates the listing returned
  idx,       \* the candidate being processed
  outcomes,  \* the outcome records, in the order written
  triggers,  \* the pull request numbers the trigger executor was invoked for
  listTries, \* listing calls made
  runErr     \* what Controller.UpdatePR returned

runnerVars ==
  <<pc, cfg, flags, envToken, platform, result, events, snap, errs, ghClient,
    ctrl, logger>>

readerVars ==
  <<rPc, rCfgPath, rWd0, rWd, rFiles, rSearched, rFound, rReadPath, rRet>>

ctrlVars == <<cPc, prs, idx, outcomes, triggers, listTries, runErr>>

vars == <<runnerVars, readerVars, ctrlVars>>

----------------------------------------------------------------------------
(* pkg/config: Reader.                                                     *)

\* reader.ExistFile(p)
ExistFile(p) == p \in rFiles

\* The directories find(wd) can visit, and the paths it can probe there.
Visited(wd) ==
  LET D[k \in 0..(MaxLen + 1)] == IF k = 0 THEN wd ELSE Dir(D[k-1])
  IN {D[k] : k \in 0..(MaxLen + 1)}

Probes(wd) == {Join(d, names[i]) : d \in Visited(wd), i \in 1..Len(names)}

\* FirstName with the names tried in the opposite order.
FirstName_Last(wd) ==
  LET hit == {i \in 1..Len(names) : ExistFile(Join(wd, names[i]))}
  IN IF hit = {} THEN 0 ELSE CHOOSE i \in hit : \A j \in hit : j <= i

\* The inner loop of find: the index of the first name that exists in wd, or 0.
FirstName(wd) ==
  LET hit == {i \in 1..Len(names) : ExistFile(Join(wd, names[i]))}
  IN IF hit = {} THEN 0 ELSE CHOOSE i \in hit : \A j \in hit : i <= j

ReaderIdle ==
  /\ rPc = "idle" /\ rCfgPath = <<>> /\ rWd0 = <<>> /\ rWd = <<>>
  /\ rFiles = {} /\ rSearched = FALSE /\ rFound = NoFound
  /\ rReadPath = <<>> /\ rRet = NoReturn

\* FindAndRead has returned to its caller: its locals are gone.
ReaderReset ==
  /\ rPc' = "idle" /\ rCfgPath' = <<>> /\ rWd0' = <<>> /\ rWd' = <<>>
  /\ rFiles' = {} /\ rSearched' = FALSE /\ rFound' = NoFound
  /\ rReadPath' = <<>> /\ rRet' = NoReturn

\* FindAndRead, up to the call of find or read.
FindAndRead ==
  /\ rPc = "FindAndRead"
  /\ IF rCfgPath = <<>>
       THEN /\ rPc' = "names"
            /\ rSearched' = TRUE
            /\ UNCHANGED rReadPath
       ELSE /\ rPc' = "read"
            /\ rReadPath' = rCfgPath
            /\ UNCHANGED rSearched
  /\ UNCHANGED <<rCfgPath, rWd0, rWd, rFiles, rFound, rRet>>
  /\ UNCHANGED <<runnerVars, ctrlVars>>

\* find: one pass over names in the directory wd.
FindNames ==
  /\ rPc = "names"
  /\ IF FirstName(rWd) # 0
       THEN /\ rFound' = [p |-> Join(rWd, names[FirstName(rWd)]), b |-> TRUE]
            /\ rReadPath' = Join(rWd, names[FirstName(rWd)])
            /\ rPc' = "read"
       ELSE /\ rPc' = "root"
            /\ UNCHANGED <<rFound, rReadPath>>
  /\ UNCHANGED <<rCfgPath, rWd0, rWd, rFiles, rSearched, rRet>>
  /\ UNCHANGED <<runnerVars, ctrlVars>>

\* find: the root test and the step to the parent directory.
FindUp ==
  /\ rPc = "root"
  /\ IF rWd = <<"/">> \/ rWd = <<>>
       THEN /\ rFound' = [p |-> <<>>, b |-> FALSE]
            /\ rRet' = [cfg |-> EmptyConfig, err |-> "nil"]
            /\ rPc' = "ret"
            /\ UNCHANGED rWd
       ELSE /\ rWd' = Dir(rWd)
            /\ rPc' = "names"
            /\ UNCHANGED <<rFound, rRet>>
  /\ UNCHANGED <<rCfgPath, rWd0, rFiles, rSearched, rReadPath>>
  /\ UNCHANGED <<runnerVars, ctrlVars>>

\* read(p): os.Open fails, the decoder fails, or the file decodes.
Read ==
  /\ rPc = "read"
  /\ \/ \E e \in {"ErrOpen", "ErrDecode"} :
          rRet' = [cfg |-> EmptyConfig, err |-> e]
     \/ \E c \in FileConfigs : rRet' = [cfg |-> c, err |-> "nil"]
  /\ rPc' = "ret"
  /\ UNCHANGED <<rCfgPath, rWd0, rWd, rFiles, rSearched, rFound, rReadPath>>
  /\ UNCHANGED <<runnerVars, ctrlVars>>

ReaderNext == FindAndRead \/ FindNames \/ FindUp \/ Read

----------------------------------------------------------------------------
(* pkg/cli: Runner.                                                        *)

\* os.Getwd(): an absolute, clean path.
WorkingDirs ==
  {s \in Strings(MaxLen) : s # <<>> /\ s[1] = "/" /\ Clean(s) = s}

\* setCLIArg with cfg.All assigned from the flag instead of only set by it.
setCLIArg_AssignAll(f, c) ==
  [c EXCEPT !.Owner = IF f.owner # "" THEN f.owner ELSE @,
            !.Repo = IF f.repo # "" THEN f.repo ELSE @,
            !.GitHubToken = IF f.token # "" THEN f.token ELSE @,
            !.Base = IF f.base # "" THEN f.base ELSE @,
            !.All = f.all,
            !.LogLevel = IF f.logLevel # "" THEN f.logLevel ELSE @]

\* Runner.setCLIArg
setCLIArg(f, c) ==
  [c EXCEPT !.Owner = IF f.owner # "" THEN f.owner ELSE @,
            !.Repo = IF f.repo # "" THEN f.repo ELSE @,
            !.GitHubToken = IF f.token # "" THEN f.token ELSE @,
            !.Base = IF f.base # "" THEN f.base ELSE @,
            !.All = IF f.all THEN TRUE ELSE @,
            !.LogLevel = IF f.logLevel # "" THEN f.logLevel ELSE @]

\* config.SetEnv: the access token comes from the environment when it is unset.
SetEnv(c, t) == [c EXCEPT !.GitHubToken = IF @ = "" THEN t ELSE @]

\* config.SetDefault: defaults for the fields still unset.
SetDefault(c) ==
  [c EXCEPT !.EmptyCommitMsg = IF @ = "" THEN "default message" ELSE @]

\* SetPlatform without the two emptiness tests.
SetPlatform_Override(c, p) ==
  IF p.present THEN [c EXCEPT !.Owner = p.owner, !.Repo = p.repo] ELSE c

\* The platform environment variables: owner and repo when still empty.
SetPlatform(c, p) ==
  IF p.present
    THEN [c EXCEPT !.Owner = IF @ = "" THEN p.owner ELSE @,
                   !.Repo = IF @ = "" THEN p.repo ELSE @]
    ELSE c

\* Validate without the check that base and all are not both set.
Validate_NoBothCheck(c) ==
  IF c.Owner = "" THEN "ErrOwnerIsRequired"
  ELSE IF c.Repo = "" THEN "ErrRepoIsRequired"
  ELSE IF ~c.All /\ c.Base = "" THEN "ErrEitherAllorBaseIsRequired"
  ELSE "nil"

\* Validate without the check that base or all is set.
Validate_NoEitherCheck(c) ==
  IF c.Owner = "" THEN "ErrOwnerIsRequired"
  ELSE IF c.Repo = "" THEN "ErrRepoIsRequired"
  ELSE IF c.All /\ c.Base # "" THEN "ErrBothAllAndBaseCantBeSet"
  ELSE "nil"

\* The validation of Runner.action: the error it returns, "nil" when none.
Validate(c) ==
  IF c.Owner = "" THEN "ErrOwnerIsRequired"
  ELSE IF c.Repo = "" THEN "ErrRepoIsRequired"
  ELSE IF ~c.All /\ c.Base = "" THEN "ErrEitherAllorBaseIsRequired"
  ELSE IF c.All /\ c.Base # "" THEN "ErrBothAllAndBaseCantBeSet"
  ELSE "nil"

\* logrus.ParseLevel followed by logrus.SetLevel(lvl): an invalid level is
\* logged and lvl keeps its zero value, PanicLevel.
SetLevel(l, level) ==
  IF level = "" THEN l
  ELSE IF level \in {"debug", "info"} THEN level
  ELSE "panic"

\* expr.New: the empty source compiles (to the predicate that is always true).
exprNew(src) == IF src = "bad" THEN "ErrCompile" ELSE "nil"

\* fmt.Errorf("it is failed to compile the expression. ...: %w", err)
Wrap(e) == "it is failed to compile the expression: " \o e

\* ActionReturn with the controller's error dropped.
ActionReturn_Swallow(e) == "nil"

\* return ctrl.UpdatePR(c.Context)
ActionReturn(e) == e

\* readConfig: --config is read, os.Getwd is called, FindAndRead is entered.
ReadConfig ==
  /\ pc = "readConfig"
  /\ events' = Append(events, "readConfig")
  /\ \/ /\ result' = "ErrGetwd"
        /\ errs' = [errs EXCEPT !.read = "ErrGetwd"]
        /\ pc' = "done"
        /\ UNCHANGED readerVars
     \/ /\ \E cp \in CfgPaths, wd \in WorkingDirs :
             /\ rCfgPath' = cp
             /\ rWd0' = wd
             /\ rWd' = wd
             /\ \E fs \in SUBSET Probes(wd) : rFiles' = fs
        /\ rPc' = "FindAndRead"
        /\ pc' = "FindAndRead"
        /\ UNCHANGED <<result, errs, rSearched, rFound, rReadPath, rRet>>
  /\ UNCHANGED <<cfg, flags, envToken, platform, snap, ghClient, ctrl, logger>>
  /\ UNCHANGED ctrlVars

\* ReadConfigReturn without the early return on an error.
ReadConfigReturn_IgnoreErr ==
  /\ pc = "FindAndRead"
  /\ rPc = "ret"
  /\ errs' = [errs EXCEPT !.read = rRet.err]
  /\ cfg' = rRet.cfg
  /\ snap' = [snap EXCEPT !.file = rRet.cfg]
  /\ pc' = "setCLIArg"
  /\ ReaderReset
  /\ UNCHANGED <<result, flags, envToken, platform, events, ghClient, ctrl, logger>>
  /\ UNCHANGED ctrlVars

\* cfg, err := runner.readConfig(c); if err != nil { return err }
ReadConfigReturn ==
  /\ pc = "FindAndRead"
  /\ rPc = "ret"
  /\ errs' = [errs EXCEPT !.read = rRet.err]
  /\ IF rRet.err # "nil"
       THEN /\ result' = rRet.err
            /\ pc' = "done"
            /\ UNCHANGED <<cfg, snap>>
       ELSE /\ cfg' = rRet.cfg
            /\ snap' = [snap EXCEPT !.file = rRet.cfg]
            /\ pc' = "setCLIArg"
            /\ UNCHANGED result
  /\ ReaderReset
  /\ UNCHANGED <<flags, envToken, platform, events, ghClient, ctrl, logger>>
  /\ UNCHANGED ctrlVars

\* cfg = runner.setCLIArg(c, cfg)
SetCLIArg ==
  /\ pc = "setCLIArg"
  /\ \E f \in FlagSets :
       /\ flags' = f
       /\ cfg' = setCLIArg(f, cfg)
       /\ snap' = [snap EXCEPT !.cli = setCLIArg(f, cfg)]
  /\ events' = Append(events, "setCLIArg")
  /\ pc' = "SetEnv"
  /\ UNCHANGED <<envToken, platform, result, errs, ghClient, ctrl, logger>>
  /\ UNCHANGED <<readerVars, ctrlVars>>

\* cfg = config.SetEnv(cfg)
ApplyEnv ==
  /\ pc = "SetEnv"
  /\ \E t \in EnvTokens :
       /\ envToken' = t
       /\ cfg' = SetEnv(cfg, t)
  /\ events' = Append(events, "SetEnv")
  /\ pc' = "SetDefault"
  /\ UNCHANGED <<flags, platform, result, snap, errs, ghClient, ctrl, logger>>
  /\ UNCHANGED <<readerVars, ctrlVars>>

\* cfg = config.SetDefault(cfg)
ApplyDefault ==
  /\ pc = "SetDefault"
  /\ cfg' = SetDefault(cfg)
  /\ snap' = [snap EXCEPT !.pre = SetDefault(cfg)]
  /\ events' = Append(events, "SetDefault")
  /\ pc' = "platform"
  /\ UNCHANGED <<flags, envToken, platform, result, errs, ghClient, ctrl, logger>>
  /\ UNCHANGED <<readerVars, ctrlVars>>

\* platform := cienv.Get() and the two fallbacks
ApplyPlatform ==
  /\ pc = "platform"
  /\ \E p \in Platforms :
       /\ platform' = p
       /\ cfg' = SetPlatform(cfg, p)
  /\ events' = Append(events, "cienv.Get")
  /\ pc' = "validate"
  /\ UNCHANGED <<flags, envToken, result, snap, errs, ghClient, ctrl, logger>>
  /\ UNCHANGED <<readerVars, ctrlVars>>

\* The four validation checks.
Validation ==
  /\ pc = "validate"
  /\ events' = Append(events, "validate")
  /\ errs' = [errs EXCEPT !.validate = Validate(cfg)]
  /\ snap' = [snap EXCEPT !.valid = cfg]
  /\ IF Validate(cfg) # "nil"
       THEN /\ result' = Validate(cfg)
            /\ pc' = "done"
       ELSE /\ pc' = "github.New"
            /\ UNCHANGED result
  /\ UNCHANGED <<cfg, flags, envToken, platform, ghClient, ctrl, logger>>
  /\ UNCHANGED <<readerVars, ctrlVars>>

\* ghClient := github.New(c.Context, github.ParamsNew{Token: cfg.GitHubToken})
NewGitHub ==
  /\ pc = "github.New"
  /\ ghClient' = [built |-> TRUE, Token |-> cfg.GitHubToken]
  /\ events' = Append(events, "github.New")
  /\ pc' = "logLevel"
  /\ UNCHANGED <<cfg, flags, envToken, platform, result, snap, errs, ctrl, logger>>
  /\ UNCHANGED <<readerVars, ctrlVars>>

\* if cfg.LogLevel != "" { ... logrus.SetLevel(lvl) }
SetLogLevel ==
  /\ pc = "logLevel"
  /\ logger' = SetLevel(logger, cfg.LogLevel)
  /\ pc' = "expr.New"
  /\ UNCHANGED <<cfg, flags, envToken, platform, result, events, snap, errs,
                 ghClient, ctrl>>
  /\ UNCHANGED <<readerVars, ctrlVars>>

\* CompileExpr without the early return on a compile error.
CompileExpr_IgnoreErr ==
  /\ pc = "expr.New"
  /\ events' = Append(events, "expr.New")
  /\ errs' = [errs EXCEPT !.compile = exprNew(cfg.Expr)]
  /\ pc' = "Controller"
  /\ UNCHANGED <<cfg, flags, envToken, platform, result, snap, ghClient, ctrl, logger>>
  /\ UNCHANGED <<readerVars, ctrlVars>>

\* ex, err := expr.New(cfg.Expr); if err != nil { return fmt.Errorf(...) }
CompileExpr ==
  /\ pc = "expr.New"
  /\ events' = Append(events, "expr.New")
  /\ errs' = [errs EXCEPT !.compile = exprNew(cfg.Expr)]
  /\ IF exprNew(cfg.Expr) # "nil"
       THEN /\ result' = Wrap(exprNew(cfg.Expr))
            /\ pc' = "done"
       ELSE /\ pc' = "Controller"
            /\ UNCHANGED result
  /\ UNCHANGED <<cfg, flags, envToken, platform, snap, ghClient, ctrl, logger>>
  /\ UNCHANGED <<readerVars, ctrlVars>>

\* ctrl := controller.Controller{Config: cfg, GitHub: ghClient, Expr: ex, ...}
NewController ==
  /\ pc = "Controller"
  /\ ctrl' = [built |-> TRUE, Config |-> cfg, Expr |-> cfg.Expr]
  /\ pc' = "UpdatePR"
  /\ UNCHANGED <<cfg, flags, envToken, platform, result, events, snap, errs,
                 ghClient, logger>>
  /\ UNCHANGED <<readerVars, ctrlVars>>

\* ctrl.UpdatePR(c.Context), seen from Runner.action: it returns nil or an error.
UpdatePR ==
  /\ pc = "UpdatePR"
  /\ cPc = "idle"
  /\ events' = Append(events, "UpdatePR")
  /\ \E e \in {"nil", "ErrList", "ErrFailed"} : runErr' = e
  /\ cPc' = "Finalized"
  /\ UNCHANGED <<pc, cfg, flags, envToken, platform, result, snap, errs,
                 ghClient, ctrl, logger>>
  /\ UNCHANGED <<prs, idx, outcomes, triggers, listTries>>
  /\ UNCHANGED readerVars

\* return ctrl.UpdatePR(c.Context)
Return ==
  /\ pc = "UpdatePR"
  /\ cPc = "Finalized"
  /\ result' = ActionReturn(runErr)
  /\ pc' = "done"
  /\ UNCHANGED <<cfg, flags, envToken, platform, events, snap, errs, ghClient,
                 ctrl, logger>>
  /\ UNCHANGED <<readerVars, ctrlVars>>

RunnerNext ==
  \/ ReadConfig \/ ReadConfigReturn \/ SetCLIArg \/ ApplyEnv \/ ApplyDefault
  \/ ApplyPlatform \/ Validation \/ NewGitHub \/ SetLogLevel \/ CompileExpr
  \/ NewController \/ UpdatePR \/ Return

CtrlIdle ==
  /\ cPc = "idle" /\ prs = <<>> /\ idx = 0 /\ outcomes = <<>>
  /\ triggers = <<>> /\ listTries = 0 /\ runErr = "none"

Init ==
  /\ pc = "readConfig"
  /\ cfg = EmptyConfig
  /\ flags = NoFlags
  /\ envToken = ""
  /\ platform = NoPlatform
  /\ result = "none"
  /\ events = <<>>
  /\ snap = NoSnap
  /\ errs = NoErrs
  /\ ghClient = NoClient
  /\ ctrl = NoController
  /\ logger = "info"
  /\ ReaderIdle
  /\ CtrlIdle

Next == RunnerNext \/ ReaderNext

Spec == Init /\ [][Next]_vars

----------------------------------------------------------------------------
(* Reader.FindAndRead on its own, for every wd and every ExistFile.        *)

FindInit ==
  /\ pc = "external"
  /\ cfg = EmptyConfig
  /\ flags = NoFlags
  /\ envToken = ""
  /\ platform = NoPlatform
  /\ result = "none"
  /\ events = <<>>
  /\ snap = NoSnap
  /\ errs = NoErrs
  /\ ghClient = NoClient
  /\ ctrl = NoController
  /\ logger = "info"
  /\ CtrlIdle
  /\ rPc = "FindAndRead"
  /\ rCfgPath \in CfgPaths
  /\ rWd0 \in Strings(MaxLen)
  /\ rWd = rWd0
  /\ rFiles \in SUBSET Probes(rWd0)
  /\ rSearched = FALSE
  /\ rFound = NoFound
  /\ rReadPath = <<>>
  /\ rRet = NoReturn

FindSpec == FindInit /\ [][ReaderNext]_vars

----------------------------------------------------------------------------
(* pkg/controller: Controller.UpdatePR, one run.                           *)

\* The base branch of each open pull request of the repository.
BaseOf(n) == IF n % 2 = 1 THEN "fb" ELSE "dev"

\* listPullRequests: a finite sequence of open pull requests with distinct
\* numbers, in the provider's order; only those targeting base when a base
\* branch is given.
Listings(c) ==
  LET open == {n \in 1..MaxPRs : c.All \/ BaseOf(n) = c.Base}
      seqs == UNION {[1..n -> open] : n \in 0..MaxPRs}
      inj == {q \in seqs : \A i, j \in 1..Len(q) : q[i] = q[j] => i = j}
  IN {[i \in 1..Len(q) |-> [number |-> q[i], base |-> BaseOf(q[i])]] : q \in inj}

\* Predicate.evaluate: the empty expression selects everything.
FilterResults(e) == IF e = "" THEN {"true"} ELSE {"true", "false", "ErrEval"}

\* The staleness check of one candidate.
StaleResults == {"stale", "up-to-date", "ErrStale"}

\* trigger: fetch, checkout, empty commit, push; the step that failed, if any.
TriggerResults == {"ok", "ErrFetch", "ErrPush"}

Record(n, a, d) == [pr |-> n, action |-> a, detail |-> d]

AnyFailed(os) == \E i \in 1..Len(os) : os[i].action = "failed"

\* The run is failed when some candidate's outcome is failed.
RunResult(os) == IF AnyFailed(os) THEN "ErrFailed" ELSE "nil"

\* The candidate that follows candidate i.
NextCandidate(i) == i + 1

\* Configured -> Listing -> Iterating: the listing and its retries.
ListPRs ==
  /\ pc = "UpdatePR"
  /\ cPc \in {"Configured", "Listing"}
  /\ listTries' = listTries + 1
  /\ \/ /\ listTries + 1 < MaxListTries
        /\ cPc' = "Listing"
        /\ UNCHANGED <<prs, idx, runErr>>
     \/ /\ runErr' = "ErrList"
        /\ cPc' = "Finalized"
        /\ UNCHANGED <<prs, idx>>
     \/ /\ \E l \in Listings(ctrl.Config) : prs' = l
        /\ idx' = 1
        /\ cPc' = "Filter"
        /\ UNCHANGED runErr
  /\ UNCHANGED <<outcomes, triggers>>
  /\ UNCHANGED <<runnerVars, readerVars>>

\* a. Evaluate the filter.
EvalFilter ==
  /\ pc = "UpdatePR"
  /\ cPc = "Filter"
  /\ idx <= Len(prs)
  /\ \E r \in FilterResults(ctrl.Expr) :
       IF r = "true"
         THEN /\ cPc' = "Stale"
              /\ UNCHANGED <<idx, outcomes>>
         ELSE /\ outcomes' =
                   Append(outcomes,
                          IF r = "false"
                            THEN Record(prs[idx].number, "skipped-by-filter", "")
                            ELSE Record(prs[idx].number, "failed", r))
              /\ idx' = NextCandidate(idx)
              /\ UNCHANGED cPc
  /\ UNCHANGED <<prs, triggers, listTries, runErr>>
  /\ UNCHANGED <<runnerVars, readerVars>>

\* b. Detect staleness.
CheckStale ==
  /\ pc = "UpdatePR"
  /\ cPc = "Stale"
  /\ \E r \in StaleResults :
       IF r = "stale"
         THEN /\ cPc' = "Trigger"
              /\ UNCHANGED <<idx, outcomes>>
         ELSE /\ outcomes' =
                   Append(outcomes,
                          IF r = "up-to-date"
                            THEN Record(prs[idx].number, "up-to-date", "")
                            ELSE Record(prs[idx].number, "failed", r))
              /\ idx' = NextCandidate(idx)
              /\ cPc' = "Filter"
  /\ UNCHANGED <<prs, triggers, listTries, runErr>>
  /\ UNCHANGED <<runnerVars, readerVars>>

\* c. Invoke the trigger executor.
Trigger ==
  /\ pc = "UpdatePR"
  /\ cPc = "Trigger"
  /\ triggers' = Append(triggers, prs[idx].number)
  /\ \E r \in TriggerResults :
       outcomes' =
         Append(outcomes,
                IF r = "ok" THEN Record(prs[idx].number, "triggered", "")
                ELSE Record(prs[idx].number, "failed", r))
  /\ idx' = NextCandidate(idx)
  /\ cPc' = "Filter"
  /\ UNCHANGED <<prs, listTries, runErr>>
  /\ UNCHANGED <<runnerVars, readerVars>>

\* Iterating -> Finalized: every candidate has its outcome record.
Finalize ==
  /\ pc = "UpdatePR"
  /\ cPc = "Filter"
  /\ idx > Len(prs)
  /\ runErr' = RunResult(outcomes)
  /\ cPc' = "Finalized"
  /\ UNCHANGED <<prs, idx, outcomes, triggers, listTries>>
  /\ UNCHANGED <<runnerVars, readerVars>>

CtrlNext ==
  ListPRs \/ EvalFilter \/ CheckStale \/ Trigger \/ Finalize \/ Return

\* Runner.action at the call of UpdatePR, for a run whose configuration came
\* from the configuration file alone.
CtrlConfigs ==
  {c \in FileConfigs :
     /\ Validate(c) = "nil" /\ exprNew(c.Expr) = "nil"
     /\ c.LogLevel = "" /\ c.GitHubToken # ""}

CtrlInit ==
  /\ pc = "UpdatePR"
  /\ \E c \in CtrlConfigs :
       /\ cfg = SetDefault(c)
       /\ snap = [file |-> c, cli |-> c, pre |-> SetDefault(c),
                  valid |-> SetDefault(c)]
       /\ ghClient = [built |-> TRUE, Token |-> c.GitHubToken]
       /\ ctrl = [built |-> TRUE, Config |-> SetDefault(c), Expr |-> c.Expr]
  /\ flags = NoFlags
  /\ envToken = ""
  /\ platform = NoPlatform
  /\ result = "none"
  /\ events = <<"readConfig", "setCLIArg", "SetEnv", "SetDefault", "cienv.Get",
                "validate", "github.New", "expr.New", "UpdatePR">>
  /\ errs = [read |-> "nil", validate |-> "nil", compile |-> "nil"]
  /\ logger = "info"
  /\ ReaderIdle
  /\ cPc = "Configured"
  /\ prs = <<>>
  /\ idx = 0
  /\ outcomes = <<>>
  /\ triggers = <<>>
  /\ listTries = 0
  /\ runErr = "none"

CtrlSpec == CtrlInit /\ [][CtrlNext]_vars

----------------------------------------------------------------------------
(* Properties.                                                             *)

Has(e) == \E i \in 1..Len(events) : events[i] = e

Count(e) == Cardinality({i \in 1..Len(events) : events[i] = e})

Before(a, b) ==
  \E i, j \in 1..Len(events) : i < j /\ events[i] = a /\ events[j] = b

IsErr(e) == e \notin {"none", "nil"}

BothSet(c) == c.All /\ c.Base # ""

NeitherSet(c) == ~c.All /\ c.Base = ""

\* All configuration layers have been applied and the validation has run.
Resolved == pc = "done" /\ errs.validate # "none"

\* No network call was made: no client, no controller, UpdatePR not entered.
NoNetwork ==
  /\ ~ghClient.built /\ ~ctrl.built /\ ~Has("github.New") /\ ~Has("UpdatePR")
  /\ cPc = "idle"

\* C1 as stated: whenever the resolved configuration has both base and all
\* set, or neither, the action returns ErrBothAllAndBaseCantBeSet, or
\* ErrEitherAllorBaseIsRequired respectively, before any network call.
C1_SelectionModeError ==
  Resolved =>
    /\ BothSet(cfg) => result = "ErrBothAllAndBaseCantBeSet" /\ NoNetwork
    /\ NeitherSet(cfg) => result = "ErrEitherAllorBaseIsRequired" /\ NoNetwork

\* C1 amended: whenever the resolved configuration has both base and all set,
\* or neither, the action returns a configuration error before any network
\* call: ErrOwnerIsRequired when the owner is empty, else ErrRepoIsRequired
\* when the repo is empty, else the selection-mode error of the case.
C1_ConfigurationError ==
  /\ Resolved /\ (BothSet(cfg) \/ NeitherSet(cfg)) =>
       /\ NoNetwork
       /\ result = IF cfg.Owner = "" THEN "ErrOwnerIsRequired"
                   ELSE IF cfg.Repo = "" THEN "ErrRepoIsRequired"
                   ELSE IF BothSet(cfg) THEN "ErrBothAllAndBaseCantBeSet"
                   ELSE "ErrEitherAllorBaseIsRequired"
  /\ ~NoNetwork => ~BothSet(cfg) /\ ~NeitherSet(cfg)

C1_Witness ==
  /\ Resolved /\ BothSet(cfg) /\ cfg.Owner # "" /\ cfg.Repo # ""
  /\ result = "ErrBothAllAndBaseCantBeSet"

\* C2: with an empty access token after all layers, the action never builds
\* the GitHub client and never invokes UpdatePR.
C2_TokenRequired ==
  /\ ghClient.built => ghClient.Token # ""
  /\ Has("UpdatePR") => cfg.GitHubToken # ""

\* C3: the expression is compiled at most once, after the validation has
\* passed; UpdatePR is invoked only after the one successful compilation; a
\* compile error ends the action with the wrapped error and without a
\* controller, a listing or a trigger.
C3_CompileOnceFailFast ==
  /\ Count("expr.New") <= 1
  /\ Has("expr.New") => Before("validate", "expr.New") /\ errs.validate = "nil"
  /\ (ctrl.built \/ Has("UpdatePR") \/ cPc # "idle") =>
       /\ Count("expr.New") = 1
       /\ errs.compile = "nil"
       /\ Has("UpdatePR") => Before("expr.New", "UpdatePR")
  /\ IsErr(errs.compile) =>
       /\ pc = "done"
       /\ result = Wrap(errs.compile)
       /\ ~ctrl.built /\ ~Has("UpdatePR") /\ cPc = "idle"
       /\ prs = <<>> /\ triggers = <<>>

C3_Witness == pc = "done" /\ errs.compile = "ErrCompile" /\ ghClient.built

\* C4: the action returns nil only if readConfig, the validation, expr.New
\* and UpdatePR all returned nil; an error of any of them makes the result an
\* error, and the error of UpdatePR is the result itself.
C4_ExitStatus ==
  pc = "done" =>
    /\ result # "none"
    /\ result = "nil" =>
         /\ errs.read = "nil" /\ errs.validate = "nil" /\ errs.compile = "nil"
         /\ runErr = "nil"
    /\ (IsErr(errs.read) \/ IsErr(errs.validate) \/ IsErr(errs.compile)
          \/ IsErr(runErr)) => IsErr(result)
    /\ runErr # "none" => result = runErr

C4_Witness == pc = "done" /\ runErr = "ErrFailed" /\ result = "ErrFailed"

\* The outcome records are those of the first candidates, in the order listed.
InOrder ==
  /\ Len(outcomes) <= Len(prs)
  /\ \A i \in 1..Len(outcomes) : outcomes[i].pr = prs[i].number

NoRepeat(q) == \A i, j \in 1..Len(q) : q[i] = q[j] => i = j

Failed == \E i \in 1..Len(outcomes) : outcomes[i].action = "failed"

\* The listing returned its candidates.
Listed == cPc \in {"Filter", "Stale", "Trigger"} \/ (cPc = "Finalized" /\ runErr # "ErrList")

C6_ControllerConfig ==
  /\ ctrl.built =>
       /\ ctrl.Config.Owner # "" /\ ctrl.Config.Repo # ""
       /\ (ctrl.Config.Base # "") # ctrl.Config.All
       /\ ctrl.Config = snap.valid
       /\ errs.validate = "nil"
  /\ (Has("UpdatePR") \/ cPc # "idle") => ctrl.built
  /\ Has("validate") => cfg = snap.valid

C6_Witness ==
  /\ Has("UpdatePR") /\ ctrl.built /\ ctrl.Config.All /\ ctrl.Config.Base = ""
  /\ ctrl.Config.Owner = "po"

FlagOf ==
  [Owner |-> "owner", Repo |-> "repo", GitHubToken |-> "token",
   Base |-> "base", LogLevel |-> "logLevel"]

\* What setCLIArg does to cfg: a flag that is not empty replaces its field,
\* every other field is kept, and all is only ever switched on.
CLIFrame ==
  Has("setCLIArg") =>
    /\ \A f \in DOMAIN FlagOf :
         snap.cli[f] = IF flags[FlagOf[f]] # "" THEN flags[FlagOf[f]]
                       ELSE snap.file[f]
    /\ snap.cli.All = (snap.file.All \/ flags.all)
    /\ snap.cli.Expr = snap.file.Expr
    /\ snap.cli.EmptyCommitMsg = snap.file.EmptyCommitMsg

\* A configuration file with all = true was read and --base was given.
FileAllFlagBase ==
  pc = "done" /\ errs.read = "nil" /\ snap.file.All /\ flags.base # ""

\* C7 as stated: setCLIArg's frame, and a file with all = true together with
\* --base always ends in ErrBothAllAndBaseCantBeSet.
C7_AlwaysBothSetError ==
  /\ CLIFrame
  /\ FileAllFlagBase => result = "ErrBothAllAndBaseCantBeSet"

\* C7 amended: setCLIArg's frame, and a file with all = true together with
\* --base always ends in a configuration error before any network call:
\* ErrBothAllAndBaseCantBeSet when owner and repo are not empty after all
\* layers, ErrOwnerIsRequired or ErrRepoIsRequired otherwise.
C7_CLIOverride ==
  /\ CLIFrame
  /\ FileAllFlagBase =>
       /\ NoNetwork
       /\ result \in {"ErrOwnerIsRequired", "ErrRepoIsRequired",
                      "ErrBothAllAndBaseCantBeSet"}
       /\ (cfg.Owner # "" /\ cfg.Repo # "") =>
            result = "ErrBothAllAndBaseCantBeSet"

C7_Witness ==
  /\ FileAllFlagBase /\ ~flags.all /\ snap.file.Base = "" /\ flags.owner = ""
  /\ snap.file.Owner = "fo"
  /\ result = "ErrBothAllAndBaseCantBeSet"

Layers ==
  <<"readConfig", "setCLIArg", "SetEnv", "SetDefault", "cienv.Get", "validate">>

\* C8: the layers are applied in the order file, flags, environment, defaults,
\* platform, all before the validation; the platform's owner and repo fill a
\* field only when it is still empty; ErrOwnerIsRequired and ErrRepoIsRequired
\* are returned only for a field that is empty after the platform fallback.
C8_LayerOrder ==
  /\ Len(events) <= Len(Layers) => events = SubSeq(Layers, 1, Len(events))
  /\ Len(events) > Len(Layers) => SubSeq(events, 1, Len(Layers)) = Layers
  /\ Has("cienv.Get") =>
       /\ cfg.Owner = IF snap.pre.Owner # "" THEN snap.pre.Owner
                      ELSE IF platform.present THEN platform.owner ELSE ""
       /\ cfg.Repo = IF snap.pre.Repo # "" THEN snap.pre.Repo
                     ELSE IF platform.present THEN platform.repo ELSE ""
  /\ result = "ErrOwnerIsRequired" =>
       /\ Has("cienv.Get") /\ cfg.Owner = "" /\ snap.pre.Owner = ""
       /\ platform.present => platform.owner = ""
  /\ result = "ErrRepoIsRequired" =>
       /\ Has("cienv.Get") /\ cfg.Repo = "" /\ snap.pre.Repo = ""
       /\ platform.present => platform.repo = ""

C8_Witness ==
  /\ Has("validate") /\ platform.present /\ platform.owner = "po"
  /\ snap.pre.Owner = "co" /\ cfg.Owner = "co"
  /\ snap.pre.Repo = "" /\ cfg.Repo = "pr"

\* C9: find terminates for every wd and every ExistFile: when no directory on
\* the way up has a configuration file, the walk ends at a directory where the
\* loop returns, that is, a directory that is its own parent is "/" or "".
C9_FindTerminates ==
  (rPc = "root" /\ Dir(rWd) = rWd) => (rWd = <<"/">> \/ rWd = <<>>)

\* The directories from wd up to the root, for an absolute clean wd.
Chain(wd) ==
  {<<"/">>, wd} \cup {SubSeq(wd, 1, i - 1) : i \in {j \in 2..Len(wd) : wd[j] = "/"}}

In(d, n) == IF d = <<"/">> THEN d \o n ELSE d \o <<"/">> \o n

HasConfig(d) == In(d, YML) \in rFiles \/ In(d, YAML) \in rFiles

Nearest(wd) ==
  CHOOSE d \in Chain(wd) :
    HasConfig(d) /\ \A e \in Chain(wd) : HasConfig(e) => Len(e) <= Len(d)

\* C10: without --config the file read is the one of the nearest directory
\* from wd up to the root that has one, .run-ci.yml before .run-ci.yaml, and
\* with none the empty Config is returned without error and nothing is read;
\* with --config nothing is searched and that path is read.
C10_NearestConfig ==
  /\ (rPc \in {"read", "ret"} /\ rCfgPath = <<>>) =>
       /\ rSearched
       /\ IF \E d \in Chain(rWd0) : HasConfig(d)
            THEN /\ rFound.b
                 /\ rReadPath = rFound.p
                 /\ rReadPath = IF In(Nearest(rWd0), YML) \in rFiles
                                  THEN In(Nearest(rWd0), YML)
                                  ELSE In(Nearest(rWd0), YAML)
            ELSE /\ ~rFound.b
                 /\ rReadPath = <<>>
                 /\ rRet = [cfg |-> EmptyConfig, err |-> "nil"]
  /\ (rPc \in {"read", "ret"} /\ rCfgPath # <<>>) =>
       ~rSearched /\ rReadPath = rCfgPath
  /\ rPc = "ret" => rRet.err \in {"nil", "ErrOpen", "ErrDecode"}

C10_Witness ==
  /\ rPc = "ret" /\ rCfgPath = <<>> /\ rWd0 = <<"/", "a", "/", "a">>
  /\ rFiles = {<<"/", "a", "/", ".run-ci.yml">>, <<"/", "a", "/", ".run-ci.yaml">>,
               <<"/", ".run-ci.yml">>}
  /\ rReadPath = <<"/", "a", "/", ".run-ci.yml">>
  /\ rRet.err = "nil" /\ rRet.cfg.Owner = "fo"

====
